---- MODULE Spec2Model ----
(***************************************************************************)
(* Model of acad-service/main.py: the bearer-token gate (HTTPBearer and    *)
(* verify_token), the scoped database connection (get_db_connection) and   *)
(* the grade-index endpoint GET /api/acad/nilai/{nim} (get_ips_mahasiswa). *)
(*                                                                         *)
(* Numbers: a grade weight (bobot) is kept in hundredths (4.00 is 400), so *)
(* total_poin is in hundredths of a point and round(ips, 2) is the integer *)
(* number of hundredths nearest to total_poin / total_sks.                 *)
(***************************************************************************)
EXTENDS Integers, Sequences, FiniteSets, TLC

\* Number of requests in flight in one behaviour.
NumReq == 2
\* Largest number of krs rows of the transcript handed to the reduction.
MaxKrs == 3

Reqs == 1..NumReq

\* Python's None, where a record is expected.
None == [kind |-> "None"]
\* A NULL credit-hour count, as it reaches the arithmetic of the loop.
NULL == 0 - 1

(***************************************************************************)
(* The academic store: the three relations the query joins.                *)
(***************************************************************************)
Nims == {"n1", "n2"}

\* mata_kuliah: kode_mk -> (nama_mk, sks). MKX has no credit hours recorded.
mata_kuliah ==
    [k \in {"MK1", "MK2", "MK3", "MK0", "MKX"} |->
        CASE k = "MK1" -> [nama_mk |-> "Algoritma", sks |-> 3]
          [] k = "MK2" -> [nama_mk |-> "Basis Data", sks |-> 2]
          [] k = "MK3" -> [nama_mk |-> "Etika", sks |-> 1]
          [] k = "MK0" -> [nama_mk |-> "Seminar", sks |-> 0]
          [] k = "MKX" -> [nama_mk |-> "Magang", sks |-> NULL]]

\* bobot_nilai: nilai -> bobot, in hundredths. The letter "T" has no entry.
bobot_nilai ==
    [g \in {"A", "B"} |->
        CASE g = "A" -> 400
          [] g = "B" -> 300]

Grades == {"A", "B", "T"}

Krs(n, k, g) == [nim |-> n, kode_mk |-> k, nilai |-> g]

\* The krs tables the request model starts from.
KrsTables ==
    { << Krs("n1", "MK1", "A"), Krs("n2", "MK3", "B"), Krs("n1", "MK2", "B") >>,
      << Krs("n1", "MK1", "T"), Krs("n1", "MK0", "A") >>,
      << Krs("n1", "MK2", "T"), Krs("n2", "MKX", "A") >> }

\* Every krs table of at most MaxKrs rows, all of student n1.
Enrollments == {Krs("n1", k, g) : k \in DOMAIN mata_kuliah, g \in Grades}
Transcripts == UNION {[1..n -> Enrollments] : n \in 0..MaxKrs}

(***************************************************************************)
(* The query of get_ips_mahasiswa: krs JOIN mata_kuliah JOIN bobot_nilai   *)
(* WHERE k.nim = %s, rows in the order of krs.                             *)
(***************************************************************************)
JoinRow(k) ==
    [nama_mk |-> mata_kuliah[k.kode_mk].nama_mk,
     sks |-> mata_kuliah[k.kode_mk].sks,
     nilai_huruf |-> k.nilai,
     nilai_angka |-> bobot_nilai[k.nilai]]

Joins(k, n) ==
    /\ k.nim = n
    /\ k.kode_mk \in DOMAIN mata_kuliah
    /\ k.nilai \in DOMAIN bobot_nilai

RECURSIVE Query(_, _)
Query(krs, n) ==
    IF krs = << >> THEN << >>
    ELSE IF Joins(Head(krs), n)
         THEN << JoinRow(Head(krs)) >> \o Query(Tail(krs), n)
         ELSE Query(Tail(krs), n)

(***************************************************************************)
(* Exceptions and responses.                                               *)
(***************************************************************************)
HTTPException(code, det) == [kind |-> "HTTPException", status_code |-> code, detail |-> det]

\* A driver or runtime error; text is what str(e) gives.
Error(t) == [kind |-> "Error", text |-> t]

Str(e) == e.text

ConnectErr == Error("could not connect to server")
ExecuteErr == Error("relation krs does not exist")
CommitErr == Error("server closed the connection unexpectedly")
RollbackErr == Error("connection already closed")
TypeErr == Error("unsupported operand type(s) for +=: int and NoneType")
TransportErr == Error("Max retries exceeded with url: /api/auth/verify")

DriverTexts == {ConnectErr.text, ExecuteErr.text, CommitErr.text, RollbackErr.text}

Response(code, det, b) == [status |-> code, detail |-> det, body |-> b]

(***************************************************************************)
(* The reduction of get_ips_mahasiswa.                                     *)
(***************************************************************************)
\* Round2 with the fraction cut off instead of rounded.
Round2Truncate(num, den) == num \div den

\* round(x, 2) of x = num / den (den > 0, num >= 0): nearest, ties to even,
\* as Python rounds a Decimal bobot. With a float bobot an exact tie falls to
\* the side its binary value lies on; away from ties the result is the same.
Round2(num, den) ==
    LET q == num \div den
        r == num % den
    IN  IF 2 * r < den THEN q
        ELSE IF 2 * r > den THEN q + 1
        ELSE IF q % 2 = 0 THEN q ELSE q + 1

\* Lines 137-140.
Acc0 == [total_sks |-> 0, total_poin |-> 0, detail_nilai |-> << >>]

\* One turn of the loop, lines 143-149.
LoopBody(acc, row) ==
    [total_sks |-> acc.total_sks + row.sks,
     total_poin |-> acc.total_poin + row.sks * row.nilai_angka,
     detail_nilai |-> Append(acc.detail_nilai, row)]

Malformed(row) == row.sks = NULL

RECURSIVE Loop(_, _)
Loop(acc, rows) ==
    IF rows = << >> THEN acc ELSE Loop(LoopBody(acc, Head(rows)), Tail(rows))

AnyMalformed(rows) == \E i \in 1..Len(rows) : Malformed(rows[i])

\* Line 152 and line 157.
Ips(acc) ==
    IF acc.total_sks > 0 THEN Round2(acc.total_poin, acc.total_sks) ELSE 0

\* Lines 154-159.
Result(n, acc) ==
    [nim |-> n, total_sks |-> acc.total_sks, ips |-> Ips(acc),
     detail_transkrip |-> acc.detail_nilai]

NotFound == HTTPException(404, << "Data nilai mahasiswa tidak ditemukan" >>)

\* Lines 133-159: what the body of the database scope does with the fetched
\* rows: [exc, result], exactly one of them None.
Body(n, rows) ==
    IF rows = << >> THEN [exc |-> NotFound, result |-> None]
    ELSE IF AnyMalformed(rows) THEN [exc |-> TypeErr, result |-> None]
    ELSE [exc |-> None, result |-> Result(n, Loop(Acc0, rows))]

(***************************************************************************)
(* The gate.                                                               *)
(***************************************************************************)
NoHeader == [scheme |-> "", credentials |-> ""]
Bearer(t) == [scheme |-> "Bearer", credentials |-> t]
Tokens == {"t1"}
Headers == {NoHeader, Bearer("")} \cup {Bearer(t) : t \in Tokens}

\* What the authority may do with POST /api/auth/verify: answer with a status,
\* or the call raises a requests.exceptions.RequestException.
AuthorityStatus == {200, 204, 401}
Reply(code) == [kind |-> "reply", status_code |-> code]
TransportError == [kind |-> "error", status_code |-> 0]
AuthorityOutcomes == {Reply(c) : c \in AuthorityStatus} \cup {TransportError}

\* The status HTTPBearer(auto_error=True) raises with when the header is
\* missing or carries no credentials: 403 in FastAPI before 0.122, 401 since.
NotAuthenticatedStatus == {401, 403}

Bearer401(det) == HTTPException(401, det)

TokenMissing == Bearer401(<< "Token missing" >>)
TokenInvalid == Bearer401(<< "Token invalid or expired" >>)
\* Unreachable with the transport error reported as a rejected token.
UnreachableAsRejected(e) == TokenInvalid

Unreachable(e) == HTTPException(500, << "Auth Service unreachable: ", Str(e) >>)

\* Rejects that lets every status below 400 through.
RejectsErrorsOnly(code) == code >= 400

\* Line 94.
Rejects(code) == code # 200

\* VerifyToken that builds the rejection and does not raise it.
VerifyTokenNoRaise(t, o) ==
    IF t = "" THEN [calls |-> << >>, exc |-> TokenMissing]
    ELSE IF o.kind = "error" THEN [calls |-> << o >>, exc |-> Unreachable(TransportErr)]
    ELSE [calls |-> << o >>, exc |-> None]

\* verify_token, lines 78-109, for credentials t and the authority's outcome o:
\* [calls, exc], calls the outcomes of the calls made to the authority.
VerifyToken(t, o) ==
    IF t = "" THEN [calls |-> << >>, exc |-> TokenMissing]
    ELSE IF o.kind = "error" THEN [calls |-> << o >>, exc |-> Unreachable(TransportErr)]
    ELSE IF Rejects(o.status_code) THEN [calls |-> << o >>, exc |-> TokenInvalid]
    ELSE [calls |-> << o >>, exc |-> None]

(***************************************************************************)
(* State.                                                                  *)
(***************************************************************************)
VARIABLES
    store,      \* the krs table (mata_kuliah and bobot_nilai are fixed)
    pc,         \* per request: where it is
    hdr,        \* per request: the Authorization header
    nim,        \* per request: the path parameter
    authLog,    \* per request: outcomes of its calls to the authority
    dbLog,      \* per request: the operations on its database connection
    conn,       \* per request: "none", "open" or "closed"
    rows,       \* per request: cursor.fetchall()
    result,     \* per request: the value the body returned
    exc,        \* per request: the exception in flight
    response    \* per request: what the caller got

vars == << store, pc, hdr, nim, authLog, dbLog, conn, rows, result, exc, response >>

Init ==
    /\ store \in KrsTables
    /\ pc = [r \in Reqs |-> "idle"]
    /\ hdr = [r \in Reqs |-> NoHeader]
    /\ nim = [r \in Reqs |-> ""]
    /\ authLog = [r \in Reqs |-> << >>]
    /\ dbLog = [r \in Reqs |-> << >>]
    /\ conn = [r \in Reqs |-> "none"]
    /\ rows = [r \in Reqs |-> << >>]
    /\ result = [r \in Reqs |-> None]
    /\ exc = [r \in Reqs |-> None]
    /\ response = [r \in Reqs |-> None]

\* The framework turns an HTTPException into the response.
ErrorResponse(e) == Response(e.status_code, e.detail, None)

\* Lines 161-165: the endpoint's handler of whatever left the scope.
Except(e) ==
    IF e.kind = "HTTPException" THEN e ELSE HTTPException(500, << Str(e) >>)

\* Line 47-56 log entries.
Ev(op, ok) == [op |-> op, ok |-> ok]

(***************************************************************************)
(* security = HTTPBearer(): the request arrives, the dependency reads the  *)
(* header. Requests are numbered in arrival order.                         *)
(***************************************************************************)
Security(r) ==
    /\ pc[r] = "idle"
    /\ r > 1 => pc[r - 1] # "idle"
    /\ \E h \in Headers, n \in Nims :
        /\ hdr' = [hdr EXCEPT ![r] = h]
        /\ nim' = [nim EXCEPT ![r] = n]
        /\ IF h = NoHeader \/ h.credentials = ""
           THEN \E s \in NotAuthenticatedStatus :
                /\ response' = [response EXCEPT ![r] =
                        ErrorResponse(HTTPException(s, << "Not authenticated" >>))]
                /\ pc' = [pc EXCEPT ![r] = "done"]
           ELSE /\ pc' = [pc EXCEPT ![r] = "verify"]
                /\ UNCHANGED response
    /\ UNCHANGED << store, authLog, dbLog, conn, rows, result, exc >>

\* Verify that trusts a token another request has had accepted.
VerifyCached(r) ==
    /\ pc[r] = "verify"
    /\ \E o \in AuthorityOutcomes :
        LET hit == \E q \in Reqs \ {r} :
                      /\ hdr[q] = hdr[r]
                      /\ authLog[q] = << Reply(200) >>
            v == IF hit THEN [calls |-> << >>, exc |-> None]
                 ELSE VerifyToken(hdr[r].credentials, o) IN
        /\ authLog' = [authLog EXCEPT ![r] = authLog[r] \o v.calls]
        /\ IF v.exc = None
           THEN /\ pc' = [pc EXCEPT ![r] = "connect"]
                /\ UNCHANGED response
           ELSE /\ pc' = [pc EXCEPT ![r] = "done"]
                /\ response' = [response EXCEPT ![r] = ErrorResponse(v.exc)]
    /\ UNCHANGED << store, hdr, nim, dbLog, conn, rows, result, exc >>

\* verify_token, with the authority's outcome as input.
Verify(r) ==
    /\ pc[r] = "verify"
    /\ \E o \in AuthorityOutcomes :
        LET v == VerifyToken(hdr[r].credentials, o) IN
        /\ authLog' = [authLog EXCEPT ![r] = authLog[r] \o v.calls]
        /\ IF v.exc = None
           THEN /\ pc' = [pc EXCEPT ![r] = "connect"]
                /\ UNCHANGED response
           ELSE /\ pc' = [pc EXCEPT ![r] = "done"]
                /\ response' = [response EXCEPT ![r] = ErrorResponse(v.exc)]
    /\ UNCHANGED << store, hdr, nim, dbLog, conn, rows, result, exc >>

\* Line 48: psycopg2.connect, outside the try of get_db_connection.
Connect(r) ==
    /\ pc[r] = "connect"
    /\ \/ /\ conn' = [conn EXCEPT ![r] = "open"]
          /\ dbLog' = [dbLog EXCEPT ![r] = Append(dbLog[r], Ev("connect", TRUE))]
          /\ pc' = [pc EXCEPT ![r] = "execute"]
          /\ UNCHANGED exc
       \/ /\ dbLog' = [dbLog EXCEPT ![r] = Append(dbLog[r], Ev("connect", FALSE))]
          /\ exc' = [exc EXCEPT ![r] = ConnectErr]
          /\ pc' = [pc EXCEPT ![r] = "respond"]
          /\ UNCHANGED conn
    /\ UNCHANGED << store, hdr, nim, authLog, rows, result, response >>

\* Lines 115-131: cursor.execute and fetchall.
Execute(r) ==
    /\ pc[r] = "execute"
    /\ \/ /\ rows' = [rows EXCEPT ![r] = Query(store, nim[r])]
          /\ dbLog' = [dbLog EXCEPT ![r] = Append(dbLog[r], Ev("execute", TRUE))]
          /\ pc' = [pc EXCEPT ![r] = "body"]
          /\ UNCHANGED exc
       \/ /\ dbLog' = [dbLog EXCEPT ![r] = Append(dbLog[r], Ev("execute", FALSE))]
          /\ exc' = [exc EXCEPT ![r] = ExecuteErr]
          /\ pc' = [pc EXCEPT ![r] = "rollback"]
          /\ UNCHANGED rows
    /\ UNCHANGED << store, hdr, nim, authLog, conn, result, response >>

\* Reduce with total_sks kept between requests instead of reset at line 137.
ReduceSharedTotals(r) ==
    /\ pc[r] = "body"
    /\ LET kept == IF r > 1 /\ result[r - 1] # None THEN result[r - 1].total_sks ELSE 0
           b == IF rows[r] = << >> THEN [exc |-> NotFound, result |-> None]
                ELSE IF AnyMalformed(rows[r]) THEN [exc |-> TypeErr, result |-> None]
                ELSE [exc |-> None,
                      result |-> Result(nim[r], Loop([Acc0 EXCEPT !.total_sks = kept], rows[r]))] IN
        /\ result' = [result EXCEPT ![r] = b.result]
        /\ exc' = [exc EXCEPT ![r] = b.exc]
        /\ pc' = [pc EXCEPT ![r] = IF b.exc = None THEN "commit" ELSE "rollback"]
    /\ UNCHANGED << store, hdr, nim, authLog, dbLog, conn, rows, response >>

\* Lines 133-159: the rest of the with block.
Reduce(r) ==
    /\ pc[r] = "body"
    /\ LET b == Body(nim[r], rows[r]) IN
        /\ result' = [result EXCEPT ![r] = b.result]
        /\ exc' = [exc EXCEPT ![r] = b.exc]
        /\ pc' = [pc EXCEPT ![r] = IF b.exc = None THEN "commit" ELSE "rollback"]
    /\ UNCHANGED << store, hdr, nim, authLog, dbLog, conn, rows, response >>

\* Commit placed after the try block: its failure skips the rollback.
CommitOutsideTry(r) ==
    /\ pc[r] = "commit"
    /\ \/ /\ dbLog' = [dbLog EXCEPT ![r] = Append(dbLog[r], Ev("commit", TRUE))]
          /\ UNCHANGED exc
       \/ /\ dbLog' = [dbLog EXCEPT ![r] = Append(dbLog[r], Ev("commit", FALSE))]
          /\ exc' = [exc EXCEPT ![r] = CommitErr]
    /\ pc' = [pc EXCEPT ![r] = "close"]
    /\ UNCHANGED << store, hdr, nim, authLog, conn, rows, result, response >>

\* Line 51: conn.commit(), inside the try.
Commit(r) ==
    /\ pc[r] = "commit"
    /\ \/ /\ dbLog' = [dbLog EXCEPT ![r] = Append(dbLog[r], Ev("commit", TRUE))]
          /\ pc' = [pc EXCEPT ![r] = "close"]
          /\ UNCHANGED exc
       \/ /\ dbLog' = [dbLog EXCEPT ![r] = Append(dbLog[r], Ev("commit", FALSE))]
          /\ exc' = [exc EXCEPT ![r] = CommitErr]
          /\ pc' = [pc EXCEPT ![r] = "rollback"]
    /\ UNCHANGED << store, hdr, nim, authLog, conn, rows, result, response >>

\* Lines 52-54: conn.rollback(), then raise e; a failing rollback raises its
\* own error in place of e.
Rollback(r) ==
    /\ pc[r] = "rollback"
    /\ \/ /\ dbLog' = [dbLog EXCEPT ![r] = Append(dbLog[r], Ev("rollback", TRUE))]
          /\ UNCHANGED exc
       \/ /\ dbLog' = [dbLog EXCEPT ![r] = Append(dbLog[r], Ev("rollback", FALSE))]
          /\ exc' = [exc EXCEPT ![r] = RollbackErr]
    /\ pc' = [pc EXCEPT ![r] = "close"]
    /\ UNCHANGED << store, hdr, nim, authLog, conn, rows, result, response >>

\* Lines 55-56: finally conn.close().
Close(r) ==
    /\ pc[r] = "close"
    /\ conn' = [conn EXCEPT ![r] = "closed"]
    /\ dbLog' = [dbLog EXCEPT ![r] = Append(dbLog[r], Ev("close", TRUE))]
    /\ pc' = [pc EXCEPT ![r] = "respond"]
    /\ UNCHANGED << store, hdr, nim, authLog, rows, result, exc, response >>

\* The scope is left: the return value of line 154, or lines 161-165.
Respond(r) ==
    /\ pc[r] = "respond"
    /\ response' = [response EXCEPT ![r] =
            IF exc[r] = None THEN Response(200, << >>, result[r])
            ELSE ErrorResponse(Except(exc[r]))]
    /\ pc' = [pc EXCEPT ![r] = "done"]
    /\ UNCHANGED << store, hdr, nim, authLog, dbLog, conn, rows, result, exc >>

Next ==
    \E r \in Reqs :
        \/ Security(r)
        \/ Verify(r)
        \/ Connect(r)
        \/ Execute(r)
        \/ Reduce(r)
        \/ Commit(r)
        \/ Rollback(r)
        \/ Close(r)
        \/ Respond(r)

Spec == Init /\ [][Next]_vars

(***************************************************************************)
(* The calculator alone: request 1 has passed the gate and holds an open   *)
(* connection; the krs table is any transcript of student n1.              *)
(***************************************************************************)
InitReduce ==
    /\ store \in Transcripts
    /\ pc = [r \in Reqs |-> IF r = 1 THEN "execute" ELSE "idle"]
    /\ hdr = [r \in Reqs |-> IF r = 1 THEN Bearer("t1") ELSE NoHeader]
    /\ nim = [r \in Reqs |-> IF r = 1 THEN "n1" ELSE ""]
    /\ authLog = [r \in Reqs |-> IF r = 1 THEN << Reply(200) >> ELSE << >>]
    /\ dbLog = [r \in Reqs |-> IF r = 1 THEN << Ev("connect", TRUE) >> ELSE << >>]
    /\ conn = [r \in Reqs |-> IF r = 1 THEN "open" ELSE "none"]
    /\ rows = [r \in Reqs |-> << >>]
    /\ result = [r \in Reqs |-> None]
    /\ exc = [r \in Reqs |-> None]
    /\ response = [r \in Reqs |-> None]

NextReduce ==
    \/ Execute(1)
    \/ Reduce(1)
    \/ Commit(1)
    \/ Rollback(1)
    \/ Close(1)
    \/ Respond(1)

SpecReduce == InitReduce /\ [][NextReduce]_vars

(***************************************************************************)
(* Vocabulary of the properties.                                           *)
(***************************************************************************)
Done(r) == pc[r] = "done"
Arrived(r) == pc[r] # "idle"

\* The request carries no bearer token: no header, or empty credentials.
NoToken(r) == Arrived(r) /\ hdr[r].credentials = ""
HasToken(r) == Arrived(r) /\ hdr[r].credentials # ""

LastCall(r) == authLog[r][Len(authLog[r])]
Called(r) == authLog[r] # << >>
AuthorityRejected(r) ==
    Called(r) /\ LastCall(r).kind = "reply" /\ LastCall(r).status_code # 200
AuthorityFailed(r) == Called(r) /\ LastCall(r).kind = "error"
AuthorityAccepted(r) ==
    Called(r) /\ LastCall(r).kind = "reply" /\ LastCall(r).status_code = 200

Logged(r, e) == \E i \in 1..Len(dbLog[r]) : dbLog[r][i] = e
Count(r, op) == Cardinality({i \in 1..Len(dbLog[r]) : dbLog[r][i].op = op})
Fetched(r) == Logged(r, Ev("execute", TRUE))
NoDriverError(r) == \A i \in 1..Len(dbLog[r]) : dbLog[r][i].ok

NamesAuthority(det) == det # << >> /\ det[1] = "Auth Service unreachable: "
LeaksDriverText(det) == \E i \in 1..Len(det) : det[i] \in DriverTexts

StatusClass(code) == code \div 100

(***************************************************************************)
(* C1: a request without a bearer token is answered 401, and it calls      *)
(* neither the authority nor the database.                                 *)
(***************************************************************************)
C1_MissingTokenIs401 ==
    \A r \in Reqs :
        Done(r) /\ NoToken(r) =>
            /\ response[r].status = 401
            /\ authLog[r] = << >>
            /\ dbLog[r] = << >>

(***************************************************************************)
(* C2: when the authority answers anything but 200 the response is 401,    *)
(* and its detail differs from the detail of the missing-token response.   *)
(***************************************************************************)
C2_RejectedIs401 ==
    \A r \in Reqs :
        Done(r) /\ AuthorityRejected(r) =>
            /\ response[r].status = 401
            /\ response[r].detail # TokenMissing.detail
            /\ \A q \in Reqs : Done(q) /\ NoToken(q) => response[q].detail # response[r].detail

C2_Witness ==
    \E r, q \in Reqs :
        /\ Done(r) /\ authLog[r] = << Reply(204) >> /\ response[r].status = 401
        /\ Done(q) /\ NoToken(q)

(***************************************************************************)
(* C3: a transport error of the call to the authority is answered with a   *)
(* 5xx whose detail names the auth service; a rejection is answered 401    *)
(* and never with that detail; a transport error is never answered 401.    *)
(***************************************************************************)
C3_UnreachableIs5xx ==
    \A r \in Reqs :
        Done(r) =>
            /\ AuthorityFailed(r) =>
                /\ StatusClass(response[r].status) = 5
                /\ StatusClass(response[r].status) # StatusClass(TokenInvalid.status_code)
                /\ NamesAuthority(response[r].detail)
                /\ response[r].status # 401
            /\ AuthorityRejected(r) =>
                /\ ~NamesAuthority(response[r].detail)
                /\ StatusClass(response[r].status) = 4

C3_Witness ==
    \E r, q \in Reqs :
        /\ Done(r) /\ AuthorityFailed(r) /\ response[r].status = 500
        /\ Done(q) /\ AuthorityRejected(q) /\ response[q].status = 401

(***************************************************************************)
(* C4: the database is touched only by a request whose token the authority *)
(* has answered 200; a request the gate fails never touches it; a 200 or   *)
(* 404 response implies the gate accepted the request.                     *)
(***************************************************************************)
C4_DatabaseOnlyAfterAccept ==
    \A r \in Reqs :
        /\ dbLog[r] # << >> \/ conn[r] # "none" => authLog[r] = << Reply(200) >>
        /\ pc[r] \in {"connect", "execute", "body", "commit", "rollback", "close", "respond"}
               => authLog[r] = << Reply(200) >>
        /\ Done(r) /\ (NoToken(r) \/ AuthorityRejected(r) \/ AuthorityFailed(r))
               => dbLog[r] = << >> /\ conn[r] = "none"
        /\ Done(r) /\ response[r].status \in {200, 404} => authLog[r] = << Reply(200) >>

C4_Witness ==
    \E r, q \in Reqs :
        /\ Done(r) /\ response[r].status \in {200, 404} /\ Fetched(r)
        /\ Done(q) /\ AuthorityRejected(q) /\ dbLog[q] = << >>

(***************************************************************************)
(* C5: an accepted request whose join yields no row is answered 404, never *)
(* 200 and never 500.                                                      *)
(***************************************************************************)
C5_NoRowsIs404 ==
    \A r \in Reqs :
        Done(r) /\ AuthorityAccepted(r) /\ Fetched(r) /\ rows[r] = << >> =>
            response[r].status = 404

(***************************************************************************)
(* C7: a failure of the database scope other than the 404 is answered 500  *)
(* with a generic detail that does not carry the driver's error text.      *)
(***************************************************************************)
C7_InternalIsGeneric ==
    \A r \in Reqs :
        Done(r) /\ dbLog[r] # << >> /\ response[r].status \notin {200, 404} =>
            /\ response[r].status = 500
            /\ ~LeaksDriverText(response[r].detail)

(***************************************************************************)
(* C8: two answered requests with the same token and the same nim, both    *)
(* accepted by the authority and both served by the database without a     *)
(* driver error, get identical responses; and no step changes the store.   *)
(***************************************************************************)
SameAnswer ==
    \A r, q \in Reqs :
        /\ Done(r) /\ Done(q)
        /\ hdr[r] = hdr[q] /\ nim[r] = nim[q]
        /\ AuthorityAccepted(r) /\ AuthorityAccepted(q)
        /\ NoDriverError(r) /\ NoDriverError(q)
        => response[r] = response[q]

C9_ScopeReleases ==
    \A r \in Reqs :
        LET committed == Logged(r, Ev("commit", TRUE))
            commitRaised == Logged(r, Ev("commit", FALSE))
            rolledBack == Count(r, "rollback") > 0
            bodyReturned == result[r] # None
        IN  /\ Done(r) => conn[r] # "open"
            /\ Done(r) /\ Logged(r, Ev("connect", TRUE)) => conn[r] = "closed"
            /\ conn[r] = "closed" =>
                /\ dbLog[r][Len(dbLog[r])] = Ev("close", TRUE)
                /\ Count(r, "close") = 1
                /\ Count(r, "commit") <= 1
                /\ Count(r, "rollback") <= 1
                /\ committed # rolledBack
                /\ committed <=> bodyReturned /\ ~commitRaised
                /\ rolledBack <=> ~bodyReturned \/ commitRaised

C9_Witness ==
    \E r, q \in Reqs :
        /\ Done(r) /\ conn[r] = "closed" /\ Logged(r, Ev("commit", FALSE))
        /\ Done(q) /\ conn[q] = "closed" /\ response[q].status \in {200, 404}

(***************************************************************************)
(* C10: a request with a bearer token calls the authority exactly once,    *)
(* whatever other requests with that token got and whatever it answers.    *)
(***************************************************************************)
C10_OneCallPerRequest ==
    \A r \in Reqs :
        /\ Len(authLog[r]) <= 1
        /\ HasToken(r) /\ pc[r] # "verify" => Len(authLog[r]) = 1

C10_Witness ==
    \E r, q \in Reqs :
        /\ r # q /\ hdr[r] = hdr[q] /\ HasToken(r)
        /\ Done(r) /\ Done(q)
        /\ authLog[r] = << Reply(200) >>
        /\ Len(authLog[q]) = 1
        /\ \E p \in Reqs : Done(p) /\ AuthorityFailed(p) /\ Len(authLog[p]) = 1

(***************************************************************************)
(* C6: the 200 response of a non-empty row set carries the sum of the      *)
(* credit hours, the rows as fetched, and the credit-weighted mean to the  *)
(* nearest hundredth (0 when there are no credit hours); the rows          *)
(* (3, 4.0), (2, 3.0) give total_sks 5 and ips 3.60.                       *)
(***************************************************************************)
RECURSIVE SumSks(_)
SumSks(rs) == IF rs = << >> THEN 0 ELSE rs[1].sks + SumSks(Tail(rs))

RECURSIVE SumPoin(_)
SumPoin(rs) == IF rs = << >> THEN 0 ELSE rs[1].sks * rs[1].nilai_angka + SumPoin(Tail(rs))

Abs(x) == IF x < 0 THEN 0 - x ELSE x

\* v hundredths is a value of num / den rounded to two places.
NearestHundredth(v, num, den) == 2 * Abs(v * den - num) <= den

ExampleRows ==
    << [nama_mk |-> "Algoritma", sks |-> 3, nilai_huruf |-> "A", nilai_angka |-> 400],
       [nama_mk |-> "Basis Data", sks |-> 2, nilai_huruf |-> "B", nilai_angka |-> 300] >>

C6_GradeIndex ==
    \A r \in Reqs :
        Done(r) /\ response[r].status = 200 =>
            LET b == response[r].body IN
            /\ rows[r] # << >>
            /\ b.nim = nim[r]
            /\ b.total_sks = SumSks(rows[r])
            /\ b.detail_transkrip = rows[r]
            /\ IF b.total_sks > 0
               THEN NearestHundredth(b.ips, SumPoin(rows[r]), b.total_sks)
               ELSE b.ips = 0
            /\ rows[r] = ExampleRows => b.total_sks = 5 /\ b.ips = 360

C6_Witness ==
    \E r \in Reqs :
        /\ Done(r) /\ response[r].status = 200
        /\ rows[r] = ExampleRows
        /\ response[r].body.ips = 360

====
